---- MODULE Spec2Model ----
(***************************************************************************)
(* StringKernel.calc_k (GPy/kern/src/string.py): the subsequence-counting  *)
(* dynamic programme, modelled statement by statement.  Every call has its *)
(* own frame (n, m, dp, p, last, i, k); the lists the frame refers to live *)
(* in a heap of list objects, so that the row sharing produced by          *)
(* [[1.0] * (m + 1)] * (n + 1) is part of the model.                       *)
(***************************************************************************)
EXTENDS Integers, Sequences, FiniteSets, TLC

\* Longest sequence passed to a sequential call.
MaxLen == 3
\* Longest sequence passed to a call that runs concurrently with another.
ConcMaxLen == 1

\* The symbols the sequences are made of.
Alphabet == {"a", "b", "c", "d"}
\* The symbols of the sequences passed to concurrent calls.
ConcAlphabet == {"a", "b"}
\* The threads of the concurrent specification.
ConcThreads == {1, 2}

VARIABLES pc, s1, s2, n, m, dp, p, last, i, k, result, err, heap

vars == <<pc, s1, s2, n, m, dp, p, last, i, k, result, err, heap>>

----------------------------------------------------------------------------
\* Python values passed as s1 and s2: a sequence of symbols, or None.

Str(s) == [type |-> "str", val |-> s]
None == [type |-> "NoneType", val |-> <<>>]

Seqs(A, L) == UNION {[1..l -> A] : l \in 0..L}

\* len(x) is defined for a sequence; len(None) raises TypeError.
IsSizedAny(x) == TRUE
IsSized(x) == x.type # "NoneType"

\* s[j] with Python's 0-based index.
At(s, j) == s[j + 1]

\* A name that is not bound to a list.
Unbound == <<>>

\* The list objects a call allocates: the row built by [1.0] * (m + 1) on
\* line 18 and the accumulator built by [0.0] * (m + 1) on line 19.  Each call
\* gets fresh objects.
RowAddr(t) == <<t, "row">>
PAddrShared(t) == <<1, "p">>
PAddr(t) == <<t, "p">>

Addrs(T) == {RowAddr(t) : t \in T} \cup {PAddr(t) : t \in T}

\* [x] * (len): a list of len copies of x (0-based).
Repeat(x, len) == [c \in 0..(len - 1) |-> x]

\* line 18: dp = [[1.0] * (m + 1)] * (n + 1).  The inner list is built once, at
\* address a; the outer list holds n + 1 references to it.
NewRowZeros(m_) == Repeat(0, m_ + 1)
NewRow(m_) == Repeat(1, m_ + 1)
NewGrid(n_, a) == Repeat(a, n_ + 1)
\* line 19: p = [0.0] * (m + 1)
NewP(m_) == Repeat(0, m_ + 1)

\* dp[r][c] in heap h
Cell(h, d, r, c) == h[d[r]][c]

\* lines 24-27, for one k: the heap and last afterwards.
InnerBodyNoLast(h, d, pa, la, a, b, i_, k_) ==
    LET h1 == [h EXCEPT ![pa][k_] = h[pa][la]]
    IN  IF At(b, k_ - 1) = At(a, i_ - 1)
        THEN [heap |-> [h1 EXCEPT ![pa][k_] = h1[pa][la] + Cell(h1, d, i_ - 1, k_ - 1)],
              last |-> la]
        ELSE [heap |-> h1, last |-> la]
InnerBodySameColumn(h, d, pa, la, a, b, i_, k_) ==
    LET h1 == [h EXCEPT ![pa][k_] = h[pa][la]]
    IN  IF At(b, k_ - 1) = At(a, i_ - 1)
        THEN [heap |-> [h1 EXCEPT ![pa][k_] = h1[pa][la] + Cell(h1, d, i_ - 1, k_)],
              last |-> k_]
        ELSE [heap |-> h1, last |-> la]
InnerBody(h, d, pa, la, a, b, i_, k_) ==
    LET h1 == [h EXCEPT ![pa][k_] = h[pa][la]]
    IN  IF At(b, k_ - 1) = At(a, i_ - 1)
        THEN [heap |-> [h1 EXCEPT ![pa][k_] = h1[pa][la] + Cell(h1, d, i_ - 1, k_ - 1)],
              last |-> k_]
        ELSE [heap |-> h1, last |-> la]

\* line 29, for one k: dp[i][k] = dp[i - 1][k] + p[k]
FillBodyNoCarry(h, d, pa, i_, k_) ==
    [h EXCEPT ![d[i_]][k_] = h[pa][k_]]
FillBody(h, d, pa, i_, k_) ==
    [h EXCEPT ![d[i_]][k_] = Cell(h, d, i_ - 1, k_) + h[pa][k_]]

----------------------------------------------------------------------------
\* calc_k as a function of its arguments: the loops of lines 20-29 run on a
\* heap of its own.

RECURSIVE InnerLoop(_, _, _, _, _, _, _, _)
InnerLoop(h, d, pa, la, a, b, i_, k_) ==
    IF k_ > Len(b) THEN h
    ELSE LET r == InnerBody(h, d, pa, la, a, b, i_, k_)
         IN  InnerLoop(r.heap, d, pa, r.last, a, b, i_, k_ + 1)

RECURSIVE FillLoop(_, _, _, _, _, _)
FillLoop(h, d, pa, i_, k_, m_) ==
    IF k_ > m_ THEN h
    ELSE FillLoop(FillBody(h, d, pa, i_, k_), d, pa, i_, k_ + 1, m_)

RECURSIVE OuterLoop(_, _, _, _, _, _)
OuterLoop(h, d, pa, a, b, i_) ==
    IF i_ > Len(a) THEN h
    ELSE LET h0 == [h EXCEPT ![pa][0] = 0]
             h1 == InnerLoop(h0, d, pa, 0, a, b, i_, 1)
             h2 == FillLoop(h1, d, pa, i_, 1, Len(b))
         IN  OuterLoop(h2, d, pa, a, b, i_ + 1)

\* The heap when calc_k(a, b) reaches line 30.
FinalHeap(a, b) ==
    LET ra == RowAddr(0)
        pa == PAddr(0)
        h0 == (ra :> NewRow(Len(b))) @@ (pa :> NewP(Len(b)))
    IN  OuterLoop(h0, NewGrid(Len(a), ra), pa, a, b, 1)

calc_k(a, b) ==
    Cell(FinalHeap(a, b), NewGrid(Len(a), RowAddr(0)), Len(a), Len(b))

----------------------------------------------------------------------------
\* The calls as processes.  pc[t] is the line thread t executes next.

Threads == DOMAIN pc

InitFor(T) ==
    /\ pc = [t \in T |-> "idle"]
    /\ s1 = [t \in T |-> None]
    /\ s2 = [t \in T |-> None]
    /\ n = [t \in T |-> 0]
    /\ m = [t \in T |-> 0]
    /\ dp = [t \in T |-> Unbound]
    /\ p = [t \in T |-> Unbound]
    /\ last = [t \in T |-> 0]
    /\ i = [t \in T |-> 0]
    /\ k = [t \in T |-> 0]
    /\ result = [t \in T |-> 0]
    /\ err = [t \in T |-> "none"]
    /\ heap = [a \in Addrs(T) |-> Unbound]

Init == InitFor({1})

InitConc == InitFor(ConcThreads)

Goto(t, l) == pc' = [pc EXCEPT ![t] = l]

\* An exception leaves the call.
Raise(t, e) ==
    /\ Goto(t, "raised")
    /\ err' = [err EXCEPT ![t] = e]

\* j is an index of the list at address a.
InRange(h, a, j) == j \in DOMAIN h[a]

\* A caller invokes calc_k(a, b).
Invoke(t, a, b) ==
    /\ pc[t] = "idle"
    /\ s1' = [s1 EXCEPT ![t] = a]
    /\ s2' = [s2 EXCEPT ![t] = b]
    /\ Goto(t, "L16")
    /\ UNCHANGED <<n, m, dp, p, last, i, k, result, err, heap>>

Call(t) ==
    /\ pc[t] = "idle"
    /\ \E a, b \in {Str(s) : s \in Seqs(Alphabet, MaxLen)} \cup {None} : Invoke(t, a, b)

CallConc(t) ==
    /\ pc[t] = "idle"
    /\ \E a, b \in {Str(s) : s \in Seqs(ConcAlphabet, ConcMaxLen)} : Invoke(t, a, b)

\* line 16: n = len(s1); len(None) raises TypeError
Line16(t) ==
    /\ pc[t] = "L16"
    /\ IF IsSized(s1[t])
       THEN /\ n' = [n EXCEPT ![t] = Len(s1[t].val)]
            /\ Goto(t, "L17")
            /\ UNCHANGED err
       ELSE /\ Raise(t, "TypeError")
            /\ UNCHANGED n
    /\ UNCHANGED <<s1, s2, m, dp, p, last, i, k, result, heap>>

\* line 17: m = len(s2)
Line17(t) ==
    /\ pc[t] = "L17"
    /\ IF IsSized(s2[t])
       THEN /\ m' = [m EXCEPT ![t] = Len(s2[t].val)]
            /\ Goto(t, "L18")
            /\ UNCHANGED err
       ELSE /\ Raise(t, "TypeError")
            /\ UNCHANGED m
    /\ UNCHANGED <<s1, s2, n, dp, p, last, i, k, result, heap>>

\* line 18: dp = [[1.0] * (m + 1)] * (n + 1)
Line18(t) ==
    /\ pc[t] = "L18"
    /\ heap' = [heap EXCEPT ![RowAddr(t)] = NewRow(m[t])]
    /\ dp' = [dp EXCEPT ![t] = NewGrid(n[t], RowAddr(t))]
    /\ Goto(t, "L19")
    /\ UNCHANGED <<s1, s2, n, m, p, last, i, k, result, err>>

\* line 19: p = [0.0] * (m + 1)
Line19(t) ==
    /\ pc[t] = "L19"
    /\ heap' = [heap EXCEPT ![PAddr(t)] = NewP(m[t])]
    /\ p' = [p EXCEPT ![t] = PAddr(t)]
    /\ i' = [i EXCEPT ![t] = 0]
    /\ Goto(t, "L20")
    /\ UNCHANGED <<s1, s2, n, m, dp, last, k, result, err>>

\* line 20: for i in xrange(1, n + 1)
Line20(t) ==
    /\ pc[t] = "L20"
    /\ IF i[t] < n[t]
       THEN /\ i' = [i EXCEPT ![t] = i[t] + 1]
            /\ Goto(t, "L21")
       ELSE /\ Goto(t, "L30")
            /\ UNCHANGED i
    /\ UNCHANGED <<s1, s2, n, m, dp, p, last, k, result, err, heap>>

\* lines 21-22: last = 0; p[0] = 0
Line21(t) ==
    /\ pc[t] = "L21"
    /\ IF InRange(heap, p[t], 0)
       THEN /\ last' = [last EXCEPT ![t] = 0]
            /\ heap' = [heap EXCEPT ![p[t]][0] = 0]
            /\ k' = [k EXCEPT ![t] = 0]
            /\ Goto(t, "L23")
            /\ UNCHANGED err
       ELSE /\ Raise(t, "IndexError")
            /\ UNCHANGED <<last, heap, k>>
    /\ UNCHANGED <<s1, s2, n, m, dp, p, i, result>>

\* line 23: for k in xrange(1, m + 1)
Line23(t) ==
    /\ pc[t] = "L23"
    /\ IF k[t] < m[t]
       THEN /\ k' = [k EXCEPT ![t] = k[t] + 1]
            /\ Goto(t, "L24")
       ELSE /\ k' = [k EXCEPT ![t] = 0]
            /\ Goto(t, "L28")
    /\ UNCHANGED <<s1, s2, n, m, dp, p, last, i, result, err, heap>>

\* lines 24-27: p[k] = p[last]; on a match p[k] = p[last] + dp[i-1][k-1], last = k
Line24(t) ==
    /\ pc[t] = "L24"
    /\ IF /\ InRange(heap, p[t], k[t])
          /\ InRange(heap, p[t], last[t])
          /\ InRange(heap, dp[t][i[t] - 1], k[t] - 1)
       THEN LET r == InnerBody(heap, dp[t], p[t], last[t],
                               s1[t].val, s2[t].val, i[t], k[t])
            IN  /\ heap' = r.heap
                /\ last' = [last EXCEPT ![t] = r.last]
                /\ Goto(t, "L23")
                /\ UNCHANGED err
       ELSE /\ Raise(t, "IndexError")
            /\ UNCHANGED <<heap, last>>
    /\ UNCHANGED <<s1, s2, n, m, dp, p, i, k, result>>

\* line 28: for k in xrange(1, m + 1)
Line28(t) ==
    /\ pc[t] = "L28"
    /\ IF k[t] < m[t]
       THEN /\ k' = [k EXCEPT ![t] = k[t] + 1]
            /\ Goto(t, "L29")
       ELSE /\ k' = [k EXCEPT ![t] = 0]
            /\ Goto(t, "L20")
    /\ UNCHANGED <<s1, s2, n, m, dp, p, last, i, result, err, heap>>

\* line 29: dp[i][k] = dp[i - 1][k] + p[k]
Line29(t) ==
    /\ pc[t] = "L29"
    /\ IF /\ InRange(heap, p[t], k[t])
          /\ InRange(heap, dp[t][i[t]], k[t])
       THEN /\ heap' = FillBody(heap, dp[t], p[t], i[t], k[t])
            /\ Goto(t, "L28")
            /\ UNCHANGED err
       ELSE /\ Raise(t, "IndexError")
            /\ UNCHANGED heap
    /\ UNCHANGED <<s1, s2, n, m, dp, p, last, i, k, result>>

\* line 30: return dp[n][m]
Line30(t) ==
    /\ pc[t] = "L30"
    /\ result' = [result EXCEPT ![t] = Cell(heap, dp[t], n[t], m[t])]
    /\ Goto(t, "done")
    /\ UNCHANGED <<s1, s2, n, m, dp, p, last, i, k, err, heap>>

\* The call is over (a value returned or an exception raised): its frame is
\* dropped, and a list no other frame refers to is released.
Return(t) ==
    /\ pc[t] \in {"done", "raised"}
    /\ Goto(t, "idle")
    /\ s1' = [s1 EXCEPT ![t] = None]
    /\ s2' = [s2 EXCEPT ![t] = None]
    /\ n' = [n EXCEPT ![t] = 0]
    /\ m' = [m EXCEPT ![t] = 0]
    /\ dp' = [dp EXCEPT ![t] = Unbound]
    /\ p' = [p EXCEPT ![t] = Unbound]
    /\ last' = [last EXCEPT ![t] = 0]
    /\ i' = [i EXCEPT ![t] = 0]
    /\ k' = [k EXCEPT ![t] = 0]
    /\ result' = [result EXCEPT ![t] = 0]
    /\ err' = [err EXCEPT ![t] = "none"]
    /\ heap' = [a \in DOMAIN heap |->
                  IF \E u \in Threads \ {t} :
                        \/ p[u] = a
                        \/ \E r \in DOMAIN dp[u] : dp[u][r] = a
                  THEN heap[a]
                  ELSE Unbound]

Step(t) ==
    \/ Line16(t)
    \/ Line17(t)
    \/ Line18(t)
    \/ Line19(t)
    \/ Line20(t)
    \/ Line21(t)
    \/ Line23(t)
    \/ Line24(t)
    \/ Line28(t)
    \/ Line29(t)
    \/ Line30(t)
    \/ Return(t)

Next ==
    \/ \E t \in Threads : Call(t)
    \/ \E t \in Threads : Line16(t)
    \/ \E t \in Threads : Line17(t)
    \/ \E t \in Threads : Line18(t)
    \/ \E t \in Threads : Line19(t)
    \/ \E t \in Threads : Line20(t)
    \/ \E t \in Threads : Line21(t)
    \/ \E t \in Threads : Line23(t)
    \/ \E t \in Threads : Line24(t)
    \/ \E t \in Threads : Line28(t)
    \/ \E t \in Threads : Line29(t)
    \/ \E t \in Threads : Line30(t)
    \/ \E t \in Threads : Return(t)

NextConc ==
    \/ \E t \in Threads : CallConc(t)
    \/ \E t \in Threads : Line16(t)
    \/ \E t \in Threads : Line17(t)
    \/ \E t \in Threads : Line18(t)
    \/ \E t \in Threads : Line19(t)
    \/ \E t \in Threads : Line20(t)
    \/ \E t \in Threads : Line21(t)
    \/ \E t \in Threads : Line23(t)
    \/ \E t \in Threads : Line24(t)
    \/ \E t \in Threads : Line28(t)
    \/ \E t \in Threads : Line29(t)
    \/ \E t \in Threads : Line30(t)
    \/ \E t \in Threads : Return(t)

Spec == Init /\ [][Next]_vars

\* A call that has started runs to its end: nothing in calc_k blocks.
FairSpec == Init /\ [][Next]_vars /\ WF_vars(Step(1))

SpecConc == InitConc /\ [][NextConc]_vars

----------------------------------------------------------------------------
\* Reference definitions the properties below compare calc_k with.

\* The accumulator row of the recurrence for one symbol of s1, from the
\* previous row prev of an ordinary grid.
RECURSIVE RefP(_, _, _, _, _, _)
RefP(prev, sym, b, c, la, pr) ==
    IF c > Len(b) THEN pr
    ELSE IF b[c] = sym
         THEN RefP(prev, sym, b, c + 1, c, [pr EXCEPT ![c] = pr[la] + prev[c - 1]])
         ELSE RefP(prev, sym, b, c + 1, la, [pr EXCEPT ![c] = pr[la]])

\* Row r of a grid of independent rows: row 0 and column 0 are 1, and
\* dp[r][c] = dp[r-1][c] + p[c] elsewhere.
RECURSIVE RefRow(_, _, _)
RefRow(a, b, r) ==
    IF r = 0 THEN [c \in 0..Len(b) |-> 1]
    ELSE LET prev == RefRow(a, b, r - 1)
             pr == RefP(prev, a[r], b, 1, 0, [c \in 0..Len(b) |-> 0])
         IN  [c \in 0..Len(b) |-> IF c = 0 THEN 1 ELSE prev[c] + pr[c]]

RefValue(a, b) == RefRow(a, b, Len(a))[Len(b)]

\* The symbols of a at the indices of I, in increasing order.
RECURSIVE Spell(_, _)
Spell(a, I) ==
    IF I = {} THEN <<>>
    ELSE LET mn == CHOOSE x \in I : \A y \in I : x <= y
         IN  <<a[mn]>> \o Spell(a, I \ {mn})

\* The number of pairs (I, J) of increasing index tuples of equal length, I
\* into a and J into b, that spell the same symbols (the empty pair included).
Alignments(a, b) ==
    Cardinality({ij \in (SUBSET (1..Len(a))) \X (SUBSET (1..Len(b))) :
                    /\ Cardinality(ij[1]) = Cardinality(ij[2])
                    /\ Spell(a, ij[1]) = Spell(b, ij[2])})

----------------------------------------------------------------------------
\* C1 as stated: with an empty s1 or an empty s2, calc_k returns 0.
EmptyGivesZero ==
    \A t \in Threads :
        (pc[t] = "done" /\ (n[t] = 0 \/ m[t] = 0)) => result[t] = 0

\* C1 as amended: with an empty s1 or an empty s2 (or both), calc_k returns
\* the base value 1.0 of the grid, never 0.
EmptyGivesBase ==
    \A t \in Threads :
        (pc[t] = "done" /\ (n[t] = 0 \/ m[t] = 0)) => result[t] = 1

EmptyCallReturned ==
    \E t \in Threads :
        /\ pc[t] = "done"
        /\ n[t] = 0
        /\ m[t] = MaxLen

\* C2: calc_k is symmetric: the value a call returns for (s1, s2) is the value
\* of calc_k(s2, s1).
Symmetric ==
    \A t \in Threads :
        pc[t] = "done" => result[t] = calc_k(s2[t].val, s1[t].val)

\* "cab" against "cad": the shape of the pair "cat", "car".
AsymmetricCallReturned ==
    \E t \in Threads :
        /\ pc[t] = "done"
        /\ s1[t].val = <<"c", "a", "b">>
        /\ s2[t].val = <<"c", "a", "d">>
        /\ result[t] = 4

\* C3 as stated: self-similarity is maximal, calc_k(s1, s1) >= calc_k(s1, s2).
SelfSimilarityMaximal ==
    \A t \in Threads :
        pc[t] = "done" => calc_k(s1[t].val, s1[t].val) >= result[t]

\* C3 as amended: calc_k(s1, s2) is bounded by the two self-similarities
\* together, calc_k(s1, s2)^2 <= calc_k(s1, s1) * calc_k(s2, s2); it can exceed
\* calc_k(s1, s1) alone.
SelfSimilarityBound ==
    \A t \in Threads :
        pc[t] = "done" =>
            result[t] * result[t]
                <= calc_k(s1[t].val, s1[t].val) * calc_k(s2[t].val, s2[t].val)

ExceedsSelfSimilarity ==
    \E t \in Threads :
        /\ pc[t] = "done"
        /\ result[t] > calc_k(s1[t].val, s1[t].val)

\* C4 as stated: a call with None as s1 or s2 fails with InvalidInputError.
NoneRaisesInvalidInputError ==
    \A t \in Threads :
        (pc[t] # "idle" /\ (s1[t] = None \/ s2[t] = None)) =>
            /\ pc[t] \in {"L16", "L17", "raised"}
            /\ pc[t] = "raised" => err[t] = "InvalidInputError"

\* C4 as amended: a call with None as s1 or s2 fails with the TypeError that
\* len() raises on line 16 or 17, before dp and p exist; it never reaches the
\* recurrence and returns no score.  No other call raises.
NoneRaisesTypeError ==
    \A t \in Threads :
        /\ (pc[t] # "idle" /\ (s1[t] = None \/ s2[t] = None)) =>
              /\ pc[t] \in {"L16", "L17", "raised"}
              /\ dp[t] = Unbound
              /\ p[t] = Unbound
              /\ pc[t] = "raised" => err[t] = "TypeError"
        /\ pc[t] = "raised" => (s1[t] = None \/ s2[t] = None)

NoneCallFailed ==
    \E t \in Threads :
        /\ pc[t] = "raised"
        /\ s1[t] # None
        /\ s2[t] = None

\* C5: whatever the other calls do and whatever ran before, a call returns
\* the value calc_k has for its own s1 and s2, and it does not fail.
CallsIndependent ==
    \A t \in Threads :
        /\ pc[t] # "raised"
        /\ pc[t] = "done" => result[t] = calc_k(s1[t].val, s2[t].val)

ReturnedWhileOtherRuns ==
    \E t, u \in Threads :
        /\ t # u
        /\ pc[t] = "done"
        /\ result[t] = 2
        /\ pc[u] = "L29"
        /\ s2[u] # s2[t]

\* The parts of C6 that the exact arithmetic of this model decides: every value
\* of dp and p is non-negative at every step, so is the value returned, and a
\* call on two sequences reaches its return.  (Whether the value is a finite
\* float depends on the width of a double, which the model does not have.)
NonNegative ==
    \A t \in Threads :
        /\ \A a \in DOMAIN heap : \A c \in DOMAIN heap[a] : heap[a][c] >= 0
        /\ pc[t] = "done" => result[t] >= 0

TerminatesNonNegative ==
    /\ []NonNegative
    /\ (pc[1] = "L18") ~> (pc[1] = "done")

\* C7: calc_k("aaa", "aaa") is strictly greater than calc_k("aaa", "aab").
RepetitionScoresHigher ==
    \A t \in Threads :
        (/\ pc[t] = "done"
         /\ s1[t].val = <<"a", "a", "a">>
         /\ s2[t].val = <<"a", "a", "b">>) =>
            calc_k(<<"a", "a", "a">>, <<"a", "a", "a">>) > result[t]

AaaAabReturned ==
    \E t \in Threads :
        /\ pc[t] = "done"
        /\ s1[t].val = <<"a", "a", "a">>
        /\ s2[t].val = <<"a", "a", "b">>

\* C8: every row of dp is the same list, and the value returned equals
\* dp[n][m] of the recurrence on a grid of n + 1 independent rows.
SharedRowRefinesGrid ==
    \A t \in Threads :
        /\ \A r \in DOMAIN dp[t] : dp[t][r] = dp[t][0]
        /\ pc[t] = "done" => result[t] = RefValue(s1[t].val, s2[t].val)

SharedRowCallReturned ==
    \E t \in Threads :
        /\ pc[t] = "done"
        /\ n[t] >= 2
        /\ m[t] >= 2
        /\ dp[t][n[t]] = dp[t][0]
        /\ result[t] > 2

\* C9: after outer iteration i, dp[i][c] is the number of alignments of common
\* subsequences of s1[0:i] and s2[0:c]; the value returned is that number for
\* s1 and s2.
CountsAlignments ==
    \A t \in Threads :
        /\ pc[t] = "L20" =>
              \A c \in 0..m[t] :
                  Cell(heap, dp[t], i[t], c)
                      = Alignments(SubSeq(s1[t].val, 1, i[t]), SubSeq(s2[t].val, 1, c))
        /\ pc[t] = "done" => result[t] = Alignments(s1[t].val, s2[t].val)

PrefixCounted ==
    \E t \in Threads :
        /\ pc[t] = "L20"
        /\ i[t] = 2
        /\ n[t] = MaxLen
        /\ m[t] = MaxLen
        /\ Cell(heap, dp[t], i[t], m[t]) > 3

\* C10: every cell of row 0 and of column 0 of dp holds the base value 1.0 in
\* every state of a call.
BaseRowAndColumnKept ==
    \A t \in Threads :
        dp[t] # Unbound =>
            \A r \in 0..n[t] : \A c \in 0..m[t] :
                (r = 0 \/ c = 0) => Cell(heap, dp[t], r, c) = 1

====
